---------------------------- MODULE Spec2Model ----------------------------
(***************************************************************************)
(* The cleaning pipeline of src/extract.py: clean_text / process_paper,    *)
(* the two passes over paper_generator, the chunked dispatcher over a      *)
(* multiprocessing.Pool, the buffered output file and the memory check of  *)
(* process_year_field.                                                     *)
(***************************************************************************)
EXTENDS Integers, Sequences, FiniteSets, TLC

(***************************************************************************)
(* Bounds of the model.                                                    *)
(***************************************************************************)
MaxLines == 4
MaxProcs == 2
MaxChunk == 2
BufferSize == 5
MaxPieces == 3
MaxIds == 2
MaxSections == 2
MaxYears == 2

\* max_memory_percent, src/extract.py:119 (scaled to an integer percentage)
MaxMemoryPercent == 80

\* the values psutil.virtual_memory().percent may report: at the threshold
\* and above it
Samples == {MaxMemoryPercent, MaxMemoryPercent + 10}

\* the discipline process_year_field is asked for
Field == "cs"

Max(a, b) == IF a >= b THEN a ELSE b

(***************************************************************************)
(* Documents.  A text is a sequence of atoms; a marker is the sequence     *)
(* "{{formula:" id "}}" or "{{cite:" id "}}"; ref_entries and bib_entries  *)
(* are ordered mappings, written as sequences of <<id, content>> pairs.    *)
(***************************************************************************)
PaperA ==
    [paper_id |-> "a", discipline |-> "cs",
     abstract |-> [text |-> <<"{{formula:", "f1", "}}">>],
     body_text |-> << [section |-> "s1",
                       text |-> <<"x", "{{cite:", "c1", "}}">>] >>,
     ref_entries |-> << << <<"f1">>, "E" >> >>,
     bib_entries |-> << << <<"c1">>, "S" >> >>]

PaperB ==
    [paper_id |-> "b", discipline |-> "cs",
     abstract |-> [text |-> <<"y">>],
     body_text |-> << >>,
     ref_entries |-> << >>,
     bib_entries |-> << >>]

\* a document of the requested discipline without an abstract:
\* paper['abstract'] raises KeyError in process_paper
PaperC ==
    [paper_id |-> "c", discipline |-> "cs",
     body_text |-> << >>,
     ref_entries |-> << >>,
     bib_entries |-> << >>]

\* a document of another discipline
PaperD ==
    [paper_id |-> "d", discipline |-> "physics",
     abstract |-> [text |-> <<"z">>],
     body_text |-> << >>,
     ref_entries |-> << >>,
     bib_entries |-> << >>]

\* a JSON object without the discipline field
PaperE == [paper_id |-> "e"]

\* the lines a shard may hold: a JSON object, or text that is not JSON
LineUniverse ==
    { [kind |-> "json", value |-> p] : p \in {PaperA, PaperB, PaperC, PaperD, PaperE} }
        \cup { [kind |-> "garbage"] }

(***************************************************************************)
(* clean_text                                                              *)
(***************************************************************************)
\* str.replace(old, new, 1): the first occurrence only
RECURSIVE ReplaceFirst(_, _, _)
ReplaceFirst(s, old, new) ==
    IF Len(s) < Len(old) THEN s
    ELSE IF SubSeq(s, 1, Len(old)) = old
         THEN new \o SubSeq(s, Len(old) + 1, Len(s))
         ELSE <<Head(s)>> \o ReplaceFirst(Tail(s), old, new)

\* str.replace: every non-overlapping occurrence of old, left to right
RECURSIVE Replace(_, _, _)
Replace(s, old, new) ==
    IF Len(s) < Len(old) THEN s
    ELSE IF SubSeq(s, 1, Len(old)) = old
         THEN new \o Replace(SubSeq(s, Len(old) + 1, Len(s)), old, new)
         ELSE <<Head(s)>> \o Replace(Tail(s), old, new)

FormulaMarker(id) == <<"{{formula:">> \o id \o <<"}}">>
CitationMarker(id) == <<"{{cite:">> \o id \o <<"}}">>
FormulaPlaceholder(n) == <<"[FORMULA_", ToString(n), "]">>
CitationPlaceholder(n) == <<"[CITATION_", ToString(n), "]">>

\* lookup[placeholder] = content
DictSet(d, k, v) == [x \in DOMAIN d \cup {k} |-> IF x = k THEN v ELSE d[x]]
EmptyDict == [x \in {} |-> "none"]

\* the number of non-overlapping occurrences of pat in s, left to right
RECURSIVE Count(_, _)
Count(s, pat) ==
    IF Len(s) < Len(pat) THEN 0
    ELSE IF SubSeq(s, 1, Len(pat)) = pat
         THEN 1 + Count(SubSeq(s, Len(pat) + 1, Len(s)), pat)
         ELSE Count(Tail(s), pat)

\* a loop that gives a number and a lookup entry only to the ids whose
\* marker is in the text
RECURSIVE FormulaLoopNoHole(_, _)
FormulaLoopNoHole(items, st) ==
    IF items = << >> THEN st
    ELSE IF Count(st.text, FormulaMarker(Head(items)[1])) = 0
         THEN FormulaLoopNoHole(Tail(items), st)
         ELSE LET placeholder == FormulaPlaceholder(st.counter)
              IN FormulaLoopNoHole(Tail(items),
                     [text |-> Replace(st.text, FormulaMarker(Head(items)[1]), placeholder),
                      lookup |-> DictSet(st.lookup, placeholder, Head(items)[2]),
                      counter |-> st.counter + 1])

\* the loop over formula_dict.items(): st = [text, lookup, counter]
RECURSIVE FormulaLoop(_, _)
FormulaLoop(items, st) ==
    IF items = << >> THEN st
    ELSE LET placeholder == FormulaPlaceholder(st.counter)
         IN FormulaLoop(Tail(items),
                [text |-> Replace(st.text, FormulaMarker(Head(items)[1]), placeholder),
                 lookup |-> DictSet(st.lookup, placeholder, Head(items)[2]),
                 counter |-> st.counter + 1])

\* the loop over citation_dict.items()
RECURSIVE CitationLoop(_, _)
CitationLoop(items, st) ==
    IF items = << >> THEN st
    ELSE LET placeholder == CitationPlaceholder(st.counter)
         IN CitationLoop(Tail(items),
                [text |-> Replace(st.text, CitationMarker(Head(items)[1]), placeholder),
                 lookup |-> DictSet(st.lookup, placeholder, Head(items)[2]),
                 counter |-> st.counter + 1])

clean_text(text, formula_dict, citation_dict) ==
    LET f == FormulaLoop(formula_dict,
                [text |-> text, lookup |-> EmptyDict, counter |-> 1])
        c == CitationLoop(citation_dict,
                [text |-> f.text, lookup |-> EmptyDict, counter |-> 1])
    IN [text |-> c.text, formula_lookup |-> f.lookup, citation_lookup |-> c.lookup]

(***************************************************************************)
(* process_paper                                                           *)
(***************************************************************************)
\* the keys process_paper subscripts; a missing one raises KeyError
PaperKeys == {"paper_id", "abstract", "body_text", "ref_entries", "bib_entries"}

KeyError == [exc |-> "KeyError"]

IsException(r) == "exc" \in DOMAIN r

\* clean_text with counters that start where the caller says
clean_textFrom(text, formula_dict, citation_dict, fstart, cstart) ==
    LET f == FormulaLoop(formula_dict,
                [text |-> text, lookup |-> EmptyDict, counter |-> fstart])
        c == CitationLoop(citation_dict,
                [text |-> f.text, lookup |-> EmptyDict, counter |-> cstart])
    IN [text |-> c.text, formula_lookup |-> f.lookup, citation_lookup |-> c.lookup]

\* process_paper with counters that run on from one text unit to the next
process_paperSharedCounters(paper) ==
    IF ~ (PaperKeys \subseteq DOMAIN paper) THEN KeyError
    ELSE LET n == Len(paper.ref_entries)
             m == Len(paper.bib_entries)
             a == clean_textFrom(paper.abstract.text, paper.ref_entries,
                                 paper.bib_entries, 1, 1)
             sec(i) == LET c == clean_textFrom(paper.body_text[i].text, paper.ref_entries,
                                               paper.bib_entries, i * n + 1, i * m + 1)
                       IN [section |-> paper.body_text[i].section, text |-> c.text,
                           formula_lookup |-> c.formula_lookup,
                           citation_lookup |-> c.citation_lookup]
         IN [paper_id |-> paper.paper_id,
             cleaned_abstract |-> a.text,
             abstract_formula_lookup |-> a.formula_lookup,
             abstract_citation_lookup |-> a.citation_lookup,
             cleaned_body |-> [i \in 1 .. Len(paper.body_text) |-> sec(i)]]

\* process_paper reading the paper with defaults instead of subscripts
process_paperLenient(paper) ==
    [paper_id |-> paper.paper_id,
     cleaned_abstract |-> << >>,
     abstract_formula_lookup |-> EmptyDict,
     abstract_citation_lookup |-> EmptyDict,
     cleaned_body |-> << >>]

process_paper(paper) ==
    IF ~ (PaperKeys \subseteq DOMAIN paper) THEN KeyError
    ELSE LET a == clean_text(paper.abstract.text, paper.ref_entries, paper.bib_entries)
             sec(s) == LET c == clean_text(s.text, paper.ref_entries, paper.bib_entries)
                       IN [section |-> s.section, text |-> c.text,
                           formula_lookup |-> c.formula_lookup,
                           citation_lookup |-> c.citation_lookup]
         IN [paper_id |-> paper.paper_id,
             cleaned_abstract |-> a.text,
             abstract_formula_lookup |-> a.formula_lookup,
             abstract_citation_lookup |-> a.citation_lookup,
             cleaned_body |-> [i \in 1 .. Len(paper.body_text) |-> sec(paper.body_text[i])]]

(***************************************************************************)
(* paper_generator and itertools.islice                                    *)
(***************************************************************************)
\* a generator that passes over the lines it cannot use
LineOutcomeSkipping(line) ==
    IF line.kind # "json" THEN "skip"
    ELSE IF "discipline" \notin DOMAIN line.value THEN "skip"
    ELSE IF line.value.discipline = Field THEN "yield"
    ELSE "skip"

\* what one line of a shard does to the generator (load_jsonl, then the
\* discipline test): json.loads raises on text that is not JSON, the
\* subscript raises on an object without the field
LineOutcome(line) ==
    IF line.kind # "json" THEN "raise"
    ELSE IF "discipline" \notin DOMAIN line.value THEN "raise"
    ELSE IF line.value.discipline = Field THEN "yield"
    ELSE "skip"

\* islice as below, for the variants that follow
RECURSIVE isliceReference(_, _, _, _)
isliceReference(ls, p, n, acc) ==
    IF n = 0 \/ p > Len(ls) THEN [chunk |-> acc, pos |-> p, raised |-> FALSE]
    ELSE LET o == LineOutcome(ls[p])
         IN IF o = "raise" THEN [chunk |-> acc, pos |-> p, raised |-> TRUE]
            ELSE IF o = "yield"
                 THEN isliceReference(ls, p + 1, n - 1, Append(acc, ls[p].value))
                 ELSE isliceReference(ls, p + 1, n, acc)

\* a slice that takes one item more than asked
isliceOneMore(ls, p, n, acc) == isliceReference(ls, p, n + 1, acc)

\* a slice that consumes the line after its last item
isliceSkipping(ls, p, n, acc) ==
    LET r == isliceReference(ls, p, n, acc)
    IN IF ~ r.raised /\ Len(r.chunk) = n /\ r.pos <= Len(ls)
       THEN [r EXCEPT !.pos = r.pos + 1]
       ELSE r

\* list(itertools.islice(papers_iterator, n)) with the generator at line p
\* of the partition: up to n qualifying documents, the generator's new
\* position, and whether the generator raised.  (The name itertools is
\* taken to be the standard library module; the file has no import
\* statement for it.)
RECURSIVE islice(_, _, _, _)
islice(ls, p, n, acc) ==
    IF n = 0 \/ p > Len(ls) THEN [chunk |-> acc, pos |-> p, raised |-> FALSE]
    ELSE LET o == LineOutcome(ls[p])
         IN IF o = "raise" THEN [chunk |-> acc, pos |-> p, raised |-> TRUE]
            ELSE IF o = "yield"
                 THEN islice(ls, p + 1, n - 1, Append(acc, ls[p].value))
                 ELSE islice(ls, p + 1, n, acc)

\* a first pass that counts the documents of every discipline
paper_generatorUnfiltered(ls) ==
    LET r == islice(ls, 1, Len(ls) + 1, << >>)
    IN [r EXCEPT !.chunk = [i \in 1 .. (r.pos - 1) |-> ls[i].value]]

\* sum(1 for _ in paper_generator()): the whole sequence
paper_generator(ls) == islice(ls, 1, Len(ls) + 1, << >>)

(***************************************************************************)
(* The output file: text handed to write() and the bytes on disk           *)
(***************************************************************************)
\* an abstraction of the length of json.dump's text for a record
JsonBytes(r) == 1 + Len(r.cleaned_abstract) + Len(r.cleaned_body)

\* a line is the record's text and '\n'
LineBytes(r) == JsonBytes(r) + 1

RECURSIVE Bytes(_)
Bytes(ls) == IF ls = << >> THEN 0 ELSE LineBytes(Head(ls)) + Bytes(Tail(ls))

\* a write of n bytes to a buffered file that has `total` bytes written and
\* `fl` of them on disk: the data is kept in the buffer when it fits, else
\* the buffer is flushed first and data larger than the buffer goes straight
\* to disk.  The result is the number of bytes on disk afterwards.
BufferedWrite(fl, total, n) ==
    IF (total - fl) + n <= BufferSize THEN fl
    ELSE IF n > BufferSize THEN total + n ELSE total

\* json.dump(processed_paper, out_file); out_file.write('\n')
WriteRecord(fl, total, r) ==
    BufferedWrite(BufferedWrite(fl, total, JsonBytes(r)), total + JsonBytes(r), 1)

\* the file opened in append mode
OpenForAppending(old) == old

\* open(output_file, 'w') truncates what the file held
OpenForWriting(old) == << >>

\* the number of complete lines among the first fl bytes of the text ls
RECURSIVE CompleteLines(_, _)
CompleteLines(ls, fl) ==
    IF ls = << >> \/ LineBytes(Head(ls)) > fl THEN 0
    ELSE 1 + CompleteLines(Tail(ls), fl - LineBytes(Head(ls)))

(***************************************************************************)
(* The memory check                                                        *)
(***************************************************************************)
\* the adjustment without its floor of 1
AdjustNoFloor(np, cs, percent) ==
    IF percent > MaxMemoryPercent
    THEN << np - 1, cs \div 2 >>
    ELSE << np, cs >>

\* the adjustment made at the threshold too
AdjustAtThreshold(np, cs, percent) ==
    IF percent >= MaxMemoryPercent
    THEN << Max(1, np - 1), Max(1, cs \div 2) >>
    ELSE << np, cs >>

\* lines 102-104: the new (num_processes, chunk_size)
Adjust(np, cs, percent) ==
    IF percent > MaxMemoryPercent
    THEN << Max(1, np - 1), Max(1, cs \div 2) >>
    ELSE << np, cs >>

(***************************************************************************)
(* The pool                                                                *)
(***************************************************************************)
\* the results of a batch given out in the opposite order
TaskResultReversed(ch, i) == process_paper(ch[Len(ch) + 1 - i])

\* pool.imap(process_paper, chunk): task i is process_paper(chunk[i])
TaskResult(ch, i) == process_paper(ch[i])

\* next() of the imap iterator on a finished result: an exception raised by
\* the worker is raised again in the caller
ResultOutcome(r) == IF IsException(r) THEN "raise" ELSE "yield"

(***************************************************************************)
(* State                                                                   *)
(***************************************************************************)
VARIABLES
    lines,              \* the lines of the partition's shards, in listing order
    num_processes,      \* process_year_field's num_processes
    chunk_size,         \* process_year_field's chunk_size
    cpp_num_processes,  \* chunked_parallel_process's num_processes
    cpp_chunk_size,     \* chunked_parallel_process's chunk_size
    total_papers,       \* the count of the first pass
    pc,                 \* where process_year_field is
    err,                \* the exception that ended it
    pos,                \* the position of the second paper_generator
    chunk,              \* the batch being drained
    next_task,          \* the next task of the batch a worker will take
    running,            \* the tasks the workers are running
    results,            \* the finished tasks' results
    next_yield,         \* the next result the imap iterator gives out
    processed_paper,    \* the loop variable of process_year_field
    out_exists,         \* the output file exists
    out_lines,          \* the records written to the output file
    flushed,            \* how many bytes of them are on disk
    mem_percent,        \* the last psutil.virtual_memory().percent
    checks,             \* how many times line 102 has read the memory use
    call,               \* the arguments of a call of clean_text or process_paper
    ret,                \* what the call returned
    args,               \* main's num_processes and chunk_size
    years,              \* main's years
    shards,             \* the lines of the shards of each year's directory
    year_idx,           \* the year main is at
    files               \* the output files of the other partitions, by path

vars == << lines, num_processes, chunk_size, cpp_num_processes, cpp_chunk_size,
           total_papers, pc, err, pos, chunk, next_task, running, results,
           next_yield, processed_paper, out_exists, out_lines, flushed,
           mem_percent, checks, call, ret, args, years, shards, year_idx,
           files >>

source_vars == << lines >>
governor_vars == << num_processes, chunk_size, mem_percent, checks >>
call_vars == << call, ret >>
main_vars == << args, years, shards, year_idx, files >>
dispatch_vars == << cpp_num_processes, cpp_chunk_size, pos, chunk >>
pool_vars == << next_task, running, results >>
file_vars == << out_exists, out_lines, flushed >>

NoPaper == [none |-> TRUE]
NoCall == [kind |-> "none"]
NoFiles == [path \in {} |-> << >>]
NoArgs == [num_processes |-> 0, chunk_size |-> 0]
NoResults == [i \in {} |-> NoPaper]

RECURSIVE SeqsUpTo(_, _)
SeqsUpTo(S, n) ==
    IF n = 0 THEN { << >> }
    ELSE LET shorter == SeqsUpTo(S, n - 1)
         IN shorter \cup { Append(s, x) : s \in { t \in shorter : Len(t) = n - 1 }, x \in S }

\* the lines of a partition's shards: a line that raises in the generator
\* ends both passes, so nothing is read after it and it is taken to be the
\* last line
Shards ==
    { s \in SeqsUpTo(LineUniverse, MaxLines) :
        \A i \in 1 .. Len(s) - 1 : LineOutcome(s[i]) # "raise" }

\* what a previous run left in the output file
StaleLines == << process_paper(PaperB) >>

Start(source) ==
    /\ lines = source
    /\ num_processes \in 1 .. MaxProcs
    /\ chunk_size \in 1 .. MaxChunk
    /\ cpp_num_processes = 0
    /\ cpp_chunk_size = 0
    /\ total_papers = 0
    /\ pc = "count"
    /\ err = "none"
    /\ pos = 1
    /\ chunk = << >>
    /\ next_task = 1
    /\ running = {}
    /\ results = NoResults
    /\ next_yield = 1
    /\ processed_paper = NoPaper
    /\ out_exists \in BOOLEAN
    /\ out_lines = IF out_exists THEN StaleLines ELSE << >>
    /\ flushed = Bytes(out_lines)
    /\ mem_percent = 0
    /\ checks = 0
    /\ call = NoCall
    /\ ret = NoPaper
    /\ args = NoArgs
    /\ years = << >>
    /\ shards = << >>
    /\ year_idx = 0
    /\ files = NoFiles

Init == \E source \in Shards : Start(source)

(***************************************************************************)
(* Steps of process_year_field                                             *)
(***************************************************************************)
\* line 90: the first pass; an exception of the generator ends the call
\* before the output file is opened
CountPapers ==
    /\ pc = "count"
    /\ LET r == paper_generator(lines)
       IN IF r.raised
          THEN /\ pc' = "error"
               /\ err' = "DecodeError"
               /\ UNCHANGED total_papers
          ELSE /\ pc' = "open"
               /\ total_papers' = Len(r.chunk)
               /\ UNCHANGED err
    /\ UNCHANGED << call_vars, main_vars >>
    /\ UNCHANGED << source_vars, governor_vars, dispatch_vars, pool_vars,
                    next_yield, processed_paper, file_vars >>

\* lines 92-94: the file is opened for writing and the dispatcher is called
\* with the values num_processes and chunk_size have now
OpenOutput ==
    /\ pc = "open"
    /\ out_exists' = TRUE
    /\ out_lines' = OpenForWriting(out_lines)
    /\ flushed' = 0
    /\ cpp_num_processes' = num_processes
    /\ cpp_chunk_size' = chunk_size
    /\ pos' = 1
    /\ pc' = "draw"
    /\ UNCHANGED << call_vars, main_vars >>
    /\ UNCHANGED << source_vars, governor_vars, total_papers, err, chunk,
                    pool_vars, next_yield, processed_paper >>

\* an error is swallowed and the dispatch goes on
LeaveSwallowing(state, e) ==
    /\ pc' = (IF state = "error" THEN "draw" ELSE state)
    /\ err' = e
    /\ running' = {}
    /\ flushed' = Bytes(out_lines)

\* leaving the with blocks: the pool is terminated, the file is closed and
\* what its buffer holds reaches the disk
Leave(state, e) ==
    /\ pc' = state
    /\ err' = e
    /\ running' = {}
    /\ flushed' = Bytes(out_lines)

\* lines 69-72: the next batch; an empty one ends the dispatcher
DrawChunk ==
    /\ pc = "draw"
    /\ LET r == islice(lines, pos, cpp_chunk_size, << >>)
       IN IF r.raised
          THEN /\ Leave("error", "DecodeError")
               /\ UNCHANGED << pos, chunk, next_task, results, next_yield >>
          ELSE IF r.chunk = << >>
          THEN /\ Leave("done", "none")
               /\ pos' = r.pos
               /\ UNCHANGED << chunk, next_task, results, next_yield >>
          ELSE /\ pos' = r.pos
               /\ chunk' = r.chunk
               /\ next_task' = 1
               /\ running' = {}
               /\ results' = NoResults
               /\ next_yield' = 1
               /\ pc' = "drain"
               /\ UNCHANGED << err, flushed >>
    /\ UNCHANGED << call_vars, main_vars >>
    /\ UNCHANGED << source_vars, governor_vars, cpp_num_processes, cpp_chunk_size,
                    total_papers, processed_paper, out_exists, out_lines >>

PoolAlive == pc \in {"drain", "write", "check"}

\* a free worker of the pool takes the next task of the batch
WorkerStart ==
    /\ PoolAlive
    /\ next_task <= Len(chunk)
    /\ Cardinality(running) < cpp_num_processes
    /\ running' = running \cup {next_task}
    /\ next_task' = next_task + 1
    /\ UNCHANGED << call_vars, main_vars >>
    /\ UNCHANGED << source_vars, governor_vars, dispatch_vars, total_papers, pc,
                    err, results, next_yield, processed_paper, file_vars >>

\* a worker finishes its task, in any order
WorkerFinish ==
    /\ PoolAlive
    /\ \E i \in running :
        /\ running' = running \ {i}
        /\ results' = [j \in DOMAIN results \cup {i} |->
                          IF j = i THEN TaskResult(chunk, i) ELSE results[j]]
    /\ UNCHANGED << call_vars, main_vars >>
    /\ UNCHANGED << source_vars, governor_vars, dispatch_vars, total_papers, pc,
                    err, next_task, next_yield, processed_paper, file_vars >>

\* lines 72-73: the iterator gives out the results in the order of the batch
YieldResult ==
    /\ pc = "drain"
    /\ next_yield \in DOMAIN results
    /\ IF ResultOutcome(results[next_yield]) = "raise"
       THEN /\ Leave("error", "WorkerFailure")
            /\ UNCHANGED << next_yield, processed_paper >>
       ELSE /\ processed_paper' = results[next_yield]
            /\ next_yield' = next_yield + 1
            /\ pc' = "write"
            /\ UNCHANGED << err, running, flushed >>
    /\ UNCHANGED << call_vars, main_vars >>
    /\ UNCHANGED << source_vars, governor_vars, dispatch_vars, total_papers,
                    next_task, results, out_exists, out_lines >>

\* lines 98-99
WriteLine ==
    /\ pc = "write"
    /\ out_lines' = Append(out_lines, processed_paper)
    /\ flushed' = WriteRecord(flushed, Bytes(out_lines), processed_paper)
    /\ pc' = "check"
    /\ UNCHANGED << call_vars, main_vars >>
    /\ UNCHANGED << source_vars, governor_vars, dispatch_vars, pool_vars,
                    total_papers, err, next_yield, processed_paper, out_exists >>

\* the next batch is drawn whatever is left of this one
ResumeEarly == "draw"

\* the generator is resumed: the rest of the batch, or the next batch
Resume == IF next_yield <= Len(chunk) THEN "drain" ELSE "draw"

\* the memory use read once per batch, after its last result
MemoryCheckPerBatch ==
    /\ pc = "check"
    /\ IF next_yield <= Len(chunk)
       THEN UNCHANGED governor_vars
       ELSE /\ \E percent \in Samples :
                /\ mem_percent' = percent
                /\ num_processes' = Adjust(num_processes, chunk_size, percent)[1]
                /\ chunk_size' = Adjust(num_processes, chunk_size, percent)[2]
            /\ checks' = checks + 1
    /\ pc' = Resume
    /\ UNCHANGED << call_vars, main_vars >>
    /\ UNCHANGED << source_vars, dispatch_vars, pool_vars, total_papers, err,
                    next_yield, processed_paper, file_vars >>

\* an adjustment that makes the dispatcher draw a new batch at once
MemoryCheckRebatching ==
    /\ pc = "check"
    /\ \E percent \in Samples :
        /\ mem_percent' = percent
        /\ num_processes' = Adjust(num_processes, chunk_size, percent)[1]
        /\ chunk_size' = Adjust(num_processes, chunk_size, percent)[2]
        /\ pc' = IF Adjust(num_processes, chunk_size, percent) = << num_processes, chunk_size >>
                 THEN Resume ELSE "draw"
    /\ checks' = checks + 1
    /\ UNCHANGED << call_vars, main_vars >>
    /\ UNCHANGED << source_vars, dispatch_vars, pool_vars, total_papers, err,
                    next_yield, processed_paper, file_vars >>

\* lines 102-105 with a sample
MemoryCheck ==
    /\ pc = "check"
    /\ \E percent \in Samples :
        /\ mem_percent' = percent
        /\ num_processes' = Adjust(num_processes, chunk_size, percent)[1]
        /\ chunk_size' = Adjust(num_processes, chunk_size, percent)[2]
    /\ checks' = checks + 1
    /\ pc' = Resume
    /\ UNCHANGED << call_vars, main_vars >>
    /\ UNCHANGED << source_vars, dispatch_vars, pool_vars, total_papers, err,
                    next_yield, processed_paper, file_vars >>

\* line 102 when psutil.virtual_memory() raises: nothing catches it
MemorySampleFails ==
    /\ pc = "check"
    /\ Leave("error", "ResourceSampleError")
    /\ UNCHANGED << call_vars, main_vars >>
    /\ UNCHANGED << source_vars, governor_vars, dispatch_vars, total_papers,
                    next_task, results, next_yield, processed_paper,
                    out_exists, out_lines >>

Next ==
    \/ CountPapers
    \/ OpenOutput
    \/ DrawChunk
    \/ WorkerStart
    \/ WorkerFinish
    \/ YieldResult
    \/ WriteLine
    \/ MemoryCheck
    \/ MemorySampleFails

Spec == Init /\ [][Next]_vars

(***************************************************************************)
(* Definitions the properties use                                          *)
(***************************************************************************)
\* a line the generator cannot decode or cannot test
BadLine(line) == line.kind # "json" \/ "discipline" \notin DOMAIN line.value

HasBadLine == \E i \in 1 .. Len(lines) : BadLine(lines[i])

\* the documents of the requested discipline, in the order of the shards
Qualifies(line) == ~ BadLine(line) /\ line.value.discipline = Field
Source ==
    LET q == SelectSeq(lines, Qualifies)
    IN [i \in 1 .. Len(q) |-> q[i].value]

\* process_paper of each document a shard may hold
Documents == { l.value : l \in { m \in LineUniverse : m.kind = "json" } }
Transformed == [p \in Documents |-> process_paper(p)]

\* process_paper applied elementwise to the source
Expected ==
    LET s == Source
    IN [i \in 1 .. Len(s) |-> Transformed[s[i]]]

IsPrefix(a, b) == Len(a) <= Len(b) /\ a = SubSeq(b, 1, Len(a))

\* the dispatcher has been called and the output file opened
Started == cpp_chunk_size > 0

\* a document whose transformation raises
Raises(paper) == ~ (PaperKeys \subseteq DOMAIN paper)
RaisingDocs ==
    LET s == Source
    IN { i \in 1 .. Len(s) : Raises(s[i]) }
FirstRaising ==
    LET r == RaisingDocs
    IN CHOOSE i \in r : \A j \in r : i <= j

\* the tasks of the batch that ended in an exception
FailedTasks == { i \in DOMAIN results : IsException(results[i]) }

C2_AdjustedValuesTakeEffect ==
    [][ (pc = "draw" /\ pc' = "drain") =>
            /\ Len(chunk') <= chunk_size
            /\ cpp_num_processes' <= num_processes ]_vars

(***************************************************************************)
(* C3: from one step to the next neither num_processes nor chunk_size      *)
(* increases, and neither drops below 1.                                   *)
(***************************************************************************)
C3_MonotoneDegradation ==
    [][ /\ num_processes' <= num_processes
        /\ chunk_size' <= chunk_size
        /\ num_processes' >= 1
        /\ chunk_size' >= 1 ]_vars

\* a check above the threshold with both values already at 1
C3_Witness ==
    /\ mem_percent > MaxMemoryPercent
    /\ num_processes = 1
    /\ chunk_size = 1
    /\ cpp_num_processes >= 2
    /\ cpp_chunk_size >= 2
    /\ Len(out_lines) >= 3
    /\ pc = "drain"

(***************************************************************************)
(* C4: a memory check with a sample strictly above the threshold sets      *)
(* num_processes to max(1, num_processes - 1) and chunk_size to            *)
(* max(1, chunk_size // 2); a sample at or below it changes neither.       *)
(***************************************************************************)
C4_GovernorStep ==
    [][ (pc = "check" /\ pc' \in {"drain", "draw"}) =>
            IF mem_percent' > MaxMemoryPercent
            THEN /\ num_processes' = (IF num_processes > 1 THEN num_processes - 1 ELSE 1)
                 /\ chunk_size' = (IF chunk_size > 1 THEN chunk_size \div 2 ELSE 1)
            ELSE /\ num_processes' = num_processes
                 /\ chunk_size' = chunk_size ]_vars

\* a sample at the threshold has left the values alone after an earlier
\* sample above it lowered both
C4_Witness ==
    /\ mem_percent = MaxMemoryPercent
    /\ cpp_chunk_size = 2
    /\ chunk_size = 1
    /\ cpp_num_processes = 2
    /\ num_processes = 1
    /\ Len(out_lines) = 2
    /\ pc # "error"

(***************************************************************************)
(* C5: when the transformation of the k-th document of the source raises   *)
(* in a worker, no line for document k or a later one is ever written, and *)
(* when the run ends with that failure the output file holds exactly the   *)
(* results of documents 1..k-1 in source order.                            *)
(***************************************************************************)
C5_CrashContainment ==
    Started =>
        LET r == RaisingDocs
            e == Expected
        IN /\ r # {} =>
                 /\ Len(out_lines) < FirstRaising
                 /\ IsPrefix(out_lines, e)
           /\ (pc = "error" /\ err = "WorkerFailure") =>
                 /\ r # {}
                 /\ out_lines = SubSeq(e, 1, FirstRaising - 1)
                 /\ flushed = Bytes(out_lines)

\* the run has ended with the failure of a document that is not the last
\* of its batch, after a line was written and with a later document of the
\* batch already transformed
C5_Witness ==
    /\ pc = "error"
    /\ err = "WorkerFailure"
    /\ Len(out_lines) >= 1
    /\ next_yield < Len(chunk)
    /\ (next_yield + 1) \in DOMAIN results
    /\ ~ IsException(results[next_yield + 1])

(***************************************************************************)
(* C6: at every point the disk holds every record written so far as a      *)
(* complete line.                                                          *)
(***************************************************************************)
C6_DurableLines ==
    Started =>
        /\ flushed = Bytes(out_lines)
        /\ CompleteLines(out_lines, flushed) = Len(out_lines)

C8_FailsOpen ==
    [][ pc = "check" =>
            /\ pc' # "error"
            /\ err' = "none" ]_vars

(***************************************************************************)
(* C9: when a line of the partition is not JSON or lacks the discipline    *)
(* field the run ends in an error, and never completes.                    *)
(***************************************************************************)
C9_DecodeErrorIsFatal ==
    HasBadLine =>
        /\ pc # "done"
        /\ pc # "count" => (pc = "error" /\ err = "DecodeError")

\* the run has ended in the error with a line that is not JSON after two
\* qualifying ones
C9_Witness ==
    /\ pc = "error"
    /\ err = "DecodeError"
    /\ Len(lines) >= 3
    /\ Qualifies(lines[1])
    /\ Qualifies(lines[2])
    /\ lines[Len(lines)].kind = "garbage"

(***************************************************************************)
(* C10: once a task of the batch has failed no further batch is drawn, the *)
(* failed task is not given to a worker again, the run does not complete,  *)
(* and a run that ends with the failure ends in the error state.           *)
(***************************************************************************)
C10_HaltAfterFailure ==
    [][ /\ FailedTasks # {} =>
              /\ pos' = pos
              /\ chunk' = chunk
              /\ FailedTasks \subseteq DOMAIN results'
              /\ running' \cap FailedTasks = {}
              /\ pc' # "done"
        /\ err' = "WorkerFailure" => pc' = "error" ]_vars

\* the run has ended with the failure while the source still holds a
\* qualifying document
C10_Witness ==
    /\ pc = "error"
    /\ err = "WorkerFailure"
    /\ \E i \in pos .. Len(lines) : Qualifies(lines[i])

(***************************************************************************)
(* C14: the second paper_generator gives the sequence the first one gave:  *)
(* the count of the first pass is the number of documents of the source,   *)
(* and on a run without errors it is the number of lines written.          *)
(***************************************************************************)
C14_CountMatchesLines ==
    /\ (pc # "count" /\ err # "DecodeError") => total_papers = Len(Source)
    /\ pc = "done" =>
          /\ Len(out_lines) = total_papers
          /\ flushed = Bytes(out_lines)

\* a run has ended after several lines, on shards that also hold lines the
\* generator passes over
C14_Witness ==
    /\ pc = "done"
    /\ total_papers >= 2
    /\ Len(lines) > total_papers
    /\ Len(out_lines) = total_papers

(***************************************************************************)
(* C15: the lines written depend on the source alone, not on the initial   *)
(* num_processes and chunk_size, the memory samples or the order in which  *)
(* the workers finish: they are always a prefix of one sequence fixed by   *)
(* the source, and all of it when the dispatcher has ended.                *)
(***************************************************************************)
LinesOfSource ==
    IF RaisingDocs = {} THEN Expected
    ELSE SubSeq(Expected, 1, FirstRaising - 1)

C15_OutputIndependentOfThrottling ==
    Started =>
        LET l == LinesOfSource
        IN /\ IsPrefix(out_lines, l)
           /\ (pc = "done" \/ (pc = "error" /\ err = "WorkerFailure")) =>
                 out_lines = l

\* a run has ended after the memory check lowered both values
C15_Witness ==
    /\ pc = "done"
    /\ num_processes < cpp_num_processes
    /\ chunk_size < cpp_chunk_size
    /\ Len(out_lines) >= 3

(***************************************************************************)
(* C17: a batch is drawn only when every result of the batch before it has *)
(* been given out and no task of it is running.                            *)
(***************************************************************************)
C17_NoCrossBatchOverlap ==
    [][ (chunk' # chunk \/ pos' # pos) =>
            /\ pc = "draw"
            /\ running = {}
            /\ next_task = Len(chunk) + 1
            /\ next_yield = Len(chunk) + 1 ]_vars

\* the second batch is in the pool after the two results of the first were
\* given out
C17_Witness ==
    /\ pc = "drain"
    /\ cpp_chunk_size = 2
    /\ cpp_num_processes = 2
    /\ Len(out_lines) = 2
    /\ Cardinality(running) = 2

FairShards ==
    SeqsUpTo({ [kind |-> "json", value |-> p] : p \in {PaperA, PaperD} }, MaxLines)
InitFair == \E source \in FairShards : Start(source)
FairSpec == InitFair /\ [][Next]_vars /\ WF_vars(Next)

(***************************************************************************)
(* C19: the memory use is read once per line written, after the line and   *)
(* before the next result is taken: the number of reads is the number of   *)
(* lines written, or one less between the write and the read.              *)
(***************************************************************************)
C19_OneCheckPerLine ==
    Started =>
        /\ checks \in {Len(out_lines) - 1, Len(out_lines)}
        /\ pc = "check" => checks = Len(out_lines) - 1
        /\ pc \in {"draw", "drain", "write", "done"} => checks = Len(out_lines)

\* the third line is written and the memory use not yet read for it
C19_Witness ==
    /\ pc = "check"
    /\ Len(out_lines) = 3
    /\ checks = 2
    /\ next_yield <= Len(chunk)

(***************************************************************************)
(* C20: the documents drawn from the source and not yet given out are at   *)
(* most the chunk size the dispatcher was called with, and a batch with    *)
(* fewer documents than that is the last one of the source.                *)
(***************************************************************************)
Drawn == Len(SelectSeq(SubSeq(lines, 1, pos - 1), Qualifies))
GivenOut == Len(out_lines) + (IF pc = "write" THEN 1 ELSE 0)

C20_BatchBound ==
    (Started /\ ~ HasBadLine) =>
        /\ Drawn - GivenOut <= cpp_chunk_size
        /\ Len(chunk) <= cpp_chunk_size
        /\ (chunk # << >> /\ Len(chunk) < cpp_chunk_size) =>
              \A i \in pos .. Len(lines) : ~ Qualifies(lines[i])

\* a full batch has been drawn and none of it given out; an earlier batch
\* was written
C20_Witness ==
    /\ pc = "drain"
    /\ cpp_chunk_size = 2
    /\ Len(out_lines) = 2
    /\ Drawn - GivenOut = 2

(***************************************************************************)
(* Calls of clean_text and process_paper on their own                      *)
(***************************************************************************)
\* ids: plain ones, one that holds a citation marker, one that holds the
\* text of a placeholder
PlainFormulaIds == { <<"f1">>, <<"f2">> }
FormulaIds ==
    PlainFormulaIds \cup { CitationMarker(<<"c1">>), CitationPlaceholder(1) }
CitationIds == { <<"c1">>, <<"c2">> }

\* the content an id stands for
ContentOf(id) ==
    IF id = <<"f1">> THEN "E1"
    ELSE IF id = <<"f2">> THEN "E2"
    ELSE IF id = <<"c1">> THEN "S1"
    ELSE IF id = <<"c2">> THEN "S2"
    ELSE "E1"

\* the mappings with at most n of the ids, in every order
OrderedMaps(ids, n) ==
    LET distinct(q) == \A i, j \in 1 .. Len(q) : i # j => q[i] # q[j]
        keys == { q \in SeqsUpTo(ids, n) : distinct(q) }
    IN { [i \in 1 .. Len(q) |-> << q[i], ContentOf(q[i]) >>] : q \in keys }

\* the pieces a text is made of
Pieces ==
    { <<"w">>, <<"{{formula:">>, <<"}}">>,
      FormulaMarker(<<"f1">>), CitationMarker(<<"c1">>) }

RECURSIVE Concat(_)
Concat(q) == IF q = << >> THEN << >> ELSE Head(q) \o Concat(Tail(q))

Texts == { Concat(q) : q \in SeqsUpTo(Pieces, MaxPieces) }

CleanTextCalls ==
    { [kind |-> "clean_text", text |-> t, formula_dict |-> f, citation_dict |-> c] :
        t \in Texts,
        f \in OrderedMaps(FormulaIds, MaxIds),
        c \in OrderedMaps(CitationIds, MaxIds) }

\* papers: an abstract and up to MaxSections sections
PaperTexts ==
    { <<"w">>, FormulaMarker(<<"f1">>),
      CitationMarker(<<"c1">>) \o FormulaMarker(<<"f2">>) }

Bodies ==
    { [i \in 1 .. Len(q) |-> [section |-> "s", text |-> q[i]]] :
        q \in SeqsUpTo(PaperTexts, MaxSections) }

ProcessPaperCalls ==
    { [kind |-> "process_paper",
       paper |-> [paper_id |-> "p", discipline |-> Field,
                  abstract |-> [text |-> t], body_text |-> b,
                  ref_entries |-> f, bib_entries |-> c]] :
        t \in PaperTexts, b \in Bodies,
        f \in OrderedMaps(FormulaIds, MaxIds),
        c \in OrderedMaps(CitationIds, MaxIds) }
      \cup { [kind |-> "process_paper", paper |-> PaperC] }

\* process_year_field is not running
Idle ==
    /\ lines = << >>
    /\ num_processes = 1
    /\ chunk_size = 1
    /\ cpp_num_processes = 0
    /\ cpp_chunk_size = 0
    /\ total_papers = 0
    /\ pc = "idle"
    /\ err = "none"
    /\ pos = 1
    /\ chunk = << >>
    /\ next_task = 1
    /\ running = {}
    /\ results = NoResults
    /\ next_yield = 1
    /\ processed_paper = NoPaper
    /\ out_exists = FALSE
    /\ out_lines = << >>
    /\ flushed = 0
    /\ mem_percent = 0
    /\ checks = 0

InitClean ==
    /\ Idle
    /\ call \in CleanTextCalls \cup ProcessPaperCalls
    /\ ret = NoPaper
    /\ args = NoArgs
    /\ years = << >>
    /\ shards = << >>
    /\ year_idx = 0
    /\ files = NoFiles

pipeline_vars ==
    << source_vars, governor_vars, dispatch_vars, pool_vars, file_vars,
       total_papers, pc, err, next_yield, processed_paper >>

CallCleanText ==
    /\ call.kind = "clean_text"
    /\ ret = NoPaper
    /\ ret' = clean_text(call.text, call.formula_dict, call.citation_dict)
    /\ UNCHANGED << call, main_vars, pipeline_vars >>

CallProcessPaper ==
    /\ call.kind = "process_paper"
    /\ ret = NoPaper
    /\ ret' = process_paper(call.paper)
    /\ UNCHANGED << call, main_vars, pipeline_vars >>

NextClean == CallCleanText \/ CallProcessPaper

SpecClean == InitClean /\ [][NextClean]_vars

\* clean_text has returned
Cleaned == call.kind = "clean_text" /\ ret # NoPaper

\* no id holds a brace of a marker or the text of a placeholder
Delimiters == { "{{formula:", "{{cite:", "}}", "[FORMULA_", "[CITATION_" }
PlainId(id) == \A i \in 1 .. Len(id) : id[i] \notin Delimiters
PlainIds ==
    /\ \A k \in 1 .. Len(call.formula_dict) : PlainId(call.formula_dict[k][1])
    /\ \A k \in 1 .. Len(call.citation_dict) : PlainId(call.citation_dict[k][1])

(***************************************************************************)
(* C11: the formula lookup has exactly the entries [FORMULA_k] -> content  *)
(* of the k-th id, k = 1..n in the order of the mapping, whether or not    *)
(* the marker is in the text, and every occurrence of the k-th marker in   *)
(* the input text has become [FORMULA_k]; the same for the citations.      *)
(* C11_HolesAndNumbering is the statement for every mapping,               *)
(* C11_HolesAndNumberingPlainIds the statement for ids that hold no brace  *)
(* and no placeholder text.                                                *)
(***************************************************************************)
LookupIs(lookup, dict, Placeholder(_)) ==
    /\ DOMAIN lookup = { Placeholder(k) : k \in 1 .. Len(dict) }
    /\ Cardinality(DOMAIN lookup) = Len(dict)
    /\ \A k \in 1 .. Len(dict) : lookup[Placeholder(k)] = dict[k][2]

OccurrencesReplaced(dict, Marker(_), Placeholder(_)) ==
    \A k \in 1 .. Len(dict) :
        Count(ret.text, Placeholder(k)) =
            Count(call.text, Marker(dict[k][1])) + Count(call.text, Placeholder(k))

HolesAndNumbering ==
    /\ LookupIs(ret.formula_lookup, call.formula_dict, FormulaPlaceholder)
    /\ LookupIs(ret.citation_lookup, call.citation_dict, CitationPlaceholder)
    /\ OccurrencesReplaced(call.formula_dict, FormulaMarker, FormulaPlaceholder)
    /\ OccurrencesReplaced(call.citation_dict, CitationMarker, CitationPlaceholder)

C11_HolesAndNumbering == Cleaned => HolesAndNumbering

C11_HolesAndNumberingPlainIds == (Cleaned /\ PlainIds) => HolesAndNumbering

\* the second id of the mapping is in the text and the first is not
C11_Witness ==
    /\ Cleaned
    /\ PlainIds
    /\ Len(call.formula_dict) = 2
    /\ Count(call.text, FormulaMarker(call.formula_dict[1][1])) = 0
    /\ Count(call.text, FormulaMarker(call.formula_dict[2][1])) = 1
    /\ Count(ret.text, FormulaPlaceholder(2)) = 1

(***************************************************************************)
(* C12: in the result of process_paper the abstract and every section have *)
(* the formula keys [FORMULA_1]..[FORMULA_n] and the citation keys         *)
(* [CITATION_1]..[CITATION_m], n and m the sizes of ref_entries and        *)
(* bib_entries, whatever was cleaned before them.                          *)
(***************************************************************************)
KeysFrom1(lookup, n, Placeholder(_)) ==
    DOMAIN lookup = { Placeholder(k) : k \in 1 .. n }

C12_CounterScopePerTextUnit ==
    (call.kind = "process_paper" /\ ret # NoPaper /\ ~ IsException(ret)) =>
        LET n == Len(call.paper.ref_entries)
            m == Len(call.paper.bib_entries)
        IN /\ KeysFrom1(ret.abstract_formula_lookup, n, FormulaPlaceholder)
           /\ KeysFrom1(ret.abstract_citation_lookup, m, CitationPlaceholder)
           /\ Len(ret.cleaned_body) = Len(call.paper.body_text)
           /\ \A i \in 1 .. Len(ret.cleaned_body) :
                 /\ KeysFrom1(ret.cleaned_body[i].formula_lookup, n, FormulaPlaceholder)
                 /\ KeysFrom1(ret.cleaned_body[i].citation_lookup, m, CitationPlaceholder)

\* a paper with two sections, two formulas and one citation was processed
C12_Witness ==
    /\ call.kind = "process_paper"
    /\ ret # NoPaper
    /\ ~ IsException(ret)
    /\ Len(ret.cleaned_body) = 2
    /\ Len(call.paper.ref_entries) = 2
    /\ Len(call.paper.bib_entries) = 1
    /\ Count(ret.cleaned_body[2].text, FormulaPlaceholder(2)) = 1

(***************************************************************************)
(* C13: a marker that occurs several times is replaced everywhere by the   *)
(* one placeholder of its id, the lookup has one entry per id, and no      *)
(* marker of an id of the mappings is left in the returned text.           *)
(* C13_AllOccurrences is the statement for every mapping,                  *)
(* C13_AllOccurrencesPlainIds the statement for ids that hold no brace and *)
(* no placeholder text.                                                    *)
(***************************************************************************)
AllReplaced(dict, lookup, Marker(_), Placeholder(_)) ==
    /\ Cardinality(DOMAIN lookup) = Len(dict)
    /\ \A k \in 1 .. Len(dict) :
          /\ Count(ret.text, Marker(dict[k][1])) = 0
          /\ Count(call.text, Marker(dict[k][1])) >= 2 =>
                Count(ret.text, Placeholder(k)) >= Count(call.text, Marker(dict[k][1]))

AllOccurrences ==
    /\ AllReplaced(call.formula_dict, ret.formula_lookup, FormulaMarker, FormulaPlaceholder)
    /\ AllReplaced(call.citation_dict, ret.citation_lookup, CitationMarker, CitationPlaceholder)

C13_AllOccurrences == Cleaned => AllOccurrences

C13_AllOccurrencesPlainIds == (Cleaned /\ PlainIds) => AllOccurrences

\* the marker of the one citation was in the text twice
C13_Witness ==
    /\ Cleaned
    /\ PlainIds
    /\ Len(call.citation_dict) = 1
    /\ Count(call.text, CitationMarker(call.citation_dict[1][1])) = 2
    /\ Count(ret.text, CitationPlaceholder(1)) = 2
    /\ Cardinality(DOMAIN ret.citation_lookup) = 1

(***************************************************************************)
(* main: process_year_field called for one partition after the other.      *)
(* fields is the one-element list << Field >>; years is a list of          *)
(* different years.  files holds the output directory; the file the        *)
(* running call has open is held by out_exists and out_lines and is put    *)
(* back when the call returns.                                             *)
(***************************************************************************)
\* a path that forgets the year
OutputPathOfField(year, field) ==
    << "output_dir", field, "cleaned_", field, ".jsonl" >>

\* lines 77 and 80: output_dir/<year>/<field>/cleaned_<field>_<year>.jsonl
OutputPath(year, field) ==
    << "output_dir", ToString(year), field,
       "cleaned_", field, "_", ToString(year), ".jsonl" >>

\* the years main may be given: the first years from 2021 on
YearLists == { [i \in 1 .. n |-> 2020 + i] : n \in 0 .. MaxYears }

\* what the shards of one year's directory may hold
JsonLine(p) == [kind |-> "json", value |-> p]
ShardUniverse ==
    { << JsonLine(PaperA) >>,
      << JsonLine(PaperB), JsonLine(PaperA) >>,
      << JsonLine(PaperA), JsonLine(PaperC) >>,
      << [kind |-> "garbage"] >> }

InitMain ==
    /\ Idle
    /\ call = NoCall
    /\ ret = NoPaper
    /\ args \in [num_processes : 1 .. MaxProcs, chunk_size : 1 .. MaxChunk]
    /\ years \in YearLists
    /\ shards \in [1 .. Len(years) -> ShardUniverse]
    /\ year_idx = 0
    /\ files = NoFiles

\* the path of the partition main is at
output_file == OutputPath(years[year_idx], Field)

\* lines 108-110: the next call of process_year_field, with main's own
\* num_processes and chunk_size
CallProcessYearField ==
    /\ pc = "idle"
    /\ year_idx < Len(years)
    /\ year_idx' = year_idx + 1
    /\ lines' = shards[year_idx']
    /\ num_processes' = args.num_processes
    /\ chunk_size' = args.chunk_size
    /\ LET path == OutputPath(years[year_idx'], Field)
       IN /\ out_exists' = (path \in DOMAIN files)
          /\ out_lines' = IF path \in DOMAIN files THEN files[path] ELSE << >>
    /\ flushed' = Bytes(out_lines')
    /\ cpp_num_processes' = 0
    /\ cpp_chunk_size' = 0
    /\ total_papers' = 0
    /\ pc' = "count"
    /\ err' = "none"
    /\ pos' = 1
    /\ chunk' = << >>
    /\ next_task' = 1
    /\ running' = {}
    /\ results' = NoResults
    /\ next_yield' = 1
    /\ processed_paper' = NoPaper
    /\ mem_percent' = 0
    /\ checks' = 0
    /\ UNCHANGED << call_vars, args, years, shards, files >>

\* process_year_field returns to the loop of main
ReturnToMain ==
    /\ pc = "done"
    /\ year_idx > 0
    /\ files' = [path \in DOMAIN files \cup {output_file} |->
                    IF path = output_file THEN out_lines ELSE files[path]]
    /\ pc' = "idle"
    /\ UNCHANGED << call_vars, args, years, shards, year_idx >>
    /\ UNCHANGED << source_vars, governor_vars, dispatch_vars, pool_vars,
                    file_vars, total_papers, err, next_yield, processed_paper >>

NextMain ==
    \/ CallProcessYearField
    \/ ReturnToMain
    \/ Next

SpecMain == InitMain /\ [][NextMain]_vars

\* the output directory: the files put back and the file of the running call
Absent == [exists |-> FALSE]
FileAt(path) ==
    IF year_idx > 0 /\ pc # "idle" /\ path = output_file
    THEN IF out_exists THEN [exists |-> TRUE, lines |-> out_lines] ELSE Absent
    ELSE IF path \in DOMAIN files
         THEN [exists |-> TRUE, lines |-> files[path]]
         ELSE Absent

\* the partitions main has completed
Completed(i) == i < year_idx \/ (i = year_idx /\ pc = "idle")

\* the partition main is at has failed
Failed == year_idx > 0 /\ pc = "error"

(***************************************************************************)
(* C16: no step of main, the step that fails a partition included,         *)
(* changes the output file of a partition completed before: each partition *)
(* writes only its own output file.                                        *)
(***************************************************************************)
C16_CompletedFilesUnchanged ==
    [][\A i \in 1 .. Len(years) :
          Completed(i) =>
              FileAt(OutputPath(years[i], Field))' = FileAt(OutputPath(years[i], Field))]_vars

\* the second partition has failed after the first was completed with output
C16_Witness ==
    /\ Failed
    /\ year_idx >= 2
    /\ FileAt(OutputPath(years[1], Field)).exists
    /\ FileAt(OutputPath(years[1], Field)).lines # << >>

=============================================================================
